---- MODULE Spec2Model ----
(***************************************************************************)
(* group_synonyms of synonymsWithDatamuse.py: the synonym file is read,    *)
(* every line is split into words, lines that share a word are merged      *)
(* until a pass changes nothing, and the lines are written back.           *)
(*                                                                         *)
(* A string is a sequence of one-character strings.  A file is a sequence  *)
(* of lines, each ending with the newline character.  Indices of           *)
(* synonymsByLine are 0-based as in the source: line i is                  *)
(* synonymsByLine[i + 1].                                                  *)
(***************************************************************************)
EXTENDS Integers, Sequences, FiniteSets, TLC

\* ---------------------------------------------------------------- bounds
MaxLines == 3    \* lines of the input file
MaxWords == 2    \* fields of one input line
MaxRuns  == 2    \* calls of group_synonyms on the same file
MaxPasses == 8   \* passes of the while loop the model follows in one call

\* The fields the input lines are built from: two plain words, one word in
\* upper case and one written with a space in front of it, as in "b, a".
Tokens == { <<"a">>, <<"b">>, <<"C">>, <<" ", "a">> }

Extensions == { "csv", "tsv", "txt" }

\* ------------------------------------------------- strings (str methods)
Range(s) == { s[k] : k \in 1..Len(s) }

Whitespace == { " ", "\t", "\n" }

\* str.lower on one character
LowerChar(c) == IF c = "A" THEN "a" ELSE IF c = "B" THEN "b" ELSE IF c = "C" THEN "c" ELSE c

\* str.lower
Lower(s) == [k \in 1..Len(s) |-> LowerChar(s[k])]

RECURSIVE LStrip(_)
LStrip(s) == IF s # <<>> /\ Head(s) \in Whitespace THEN LStrip(Tail(s)) ELSE s

RECURSIVE RStrip(_)
RStrip(s) ==
    IF s # <<>> /\ s[Len(s)] \in Whitespace THEN RStrip(SubSeq(s, 1, Len(s) - 1)) ELSE s

\* str.strip: whitespace is removed at both ends of the whole string
Strip(s) == RStrip(LStrip(s))

\* the position of the first sep in s, 0 when there is none
FirstSep(s, sep) ==
    IF \E k \in 1..Len(s) : s[k] = sep
    THEN CHOOSE k \in 1..Len(s) : s[k] = sep /\ \A m \in 1..(k - 1) : s[m] # sep
    ELSE 0

\* str.split(sep): always at least one piece, "" gives [""]
RECURSIVE Split(_, _)
Split(s, sep) ==
    LET k == FirstSep(s, sep)
    IN  IF k = 0 THEN << s >>
        ELSE << SubSeq(s, 1, k - 1) >> \o Split(SubSeq(s, k + 1, Len(s)), sep)

\* sep.join(words)
RECURSIVE Join(_, _)
Join(words, sep) ==
    IF words = <<>> THEN <<>>
    ELSE IF Len(words) = 1 THEN words[1]
    ELSE words[1] \o << sep >> \o Join(Tail(words), sep)

\* ------------------------------------------------------- group_synonyms
\* SeparatorFor with the tab as the separator of every other extension
SeparatorFor_Default(e) == IF e = "csv" THEN "," ELSE "\t"

\* "Set separator based on file type"; "" stands for the raise of the else
SeparatorFor(e) == IF e = "csv" THEN "," ELSE IF e = "tsv" THEN "\t" ELSE ""

\* line.strip().lower().split(separator)
ParseLine(raw, sep) == Split(Lower(Strip(raw)), sep)

\* list(map(lambda line: ..., lines))
Parse(f, sep) == [k \in 1..Len(f) |-> ParseLine(f[k], sep)]

\* file.write(separator.join(line) + "\n") for every line
Format(lines, sep) == [k \in 1..Len(lines) |-> Join(lines[k], sep) \o << "\n" >>]

\* IsDegenerate without the test of the length: "if not line"
IsDegenerate_Empty(line) == line = <<>>

\* "if not line or len(line) < 2"
IsDegenerate(line) == line = <<>> \/ Len(line) < 2

\* Pop that removes nothing
Pop_Nothing(lines, idx) == lines

\* synonymsByLine.pop(i)
Pop(lines, idx) == SubSeq(lines, 1, idx) \o SubSeq(lines, idx + 2, Len(lines))

\* Dedup without the set: list(line)
Dedup_Keep(line) == { line }

\* the sequences that hold every element of S once
RECURSIVE Orders(_)
Orders(S) ==
    IF S = {} THEN { <<>> }
    ELSE UNION { { << x >> \o o : o \in Orders(S \ {x}) } : x \in S }

\* list(set(line)): the distinct words of the line, in any order
Dedup(line) == Orders(Range(line))

\* The inner for loop over the words of a line: the position of the first
\* word that is already in processedSynonyms when it is met (the words before
\* it have been added by then), 0 when the loop ends without a break.
FirstProcessed(line, processed) ==
    LET seen(k) == processed \cup { line[m] : m \in 1..(k - 1) }
    IN  IF \E k \in 1..Len(line) : line[k] \in seen(k)
        THEN CHOOSE k \in 1..Len(line) :
                 /\ line[k] \in seen(k)
                 /\ \A m \in 1..(k - 1) : line[m] \notin seen(m)
        ELSE 0

\* the lines (0-based indices) that contain the word
Holders(lines, word) == { j \in 0..(Len(lines) - 1) : word \in Range(lines[j + 1]) }

\* TargetOf that keeps the last line that contains the word
TargetOf_Last(lines, word) ==
    LET H == Holders(lines, word)
    IN  IF H = {} THEN -1 ELSE CHOOSE j \in H : \A m \in H : j >= m

\* the loop of substitute_synonyms: the first line that contains the word,
\* -1 when the loop ends and the exception is raised
TargetOf(lines, word) ==
    LET H == Holders(lines, word)
    IN  IF H = {} THEN -1 ELSE CHOOSE j \in H : \A m \in H : j <= m

\* substitute_synonyms that clears the line without appending it to the target
substitute_synonyms_NoAppend(lines, synonym_to_be_substituted, synonyms_to_group, index_of_synonyms_to_group) ==
    [lines EXCEPT ![index_of_synonyms_to_group + 1] = <<>>]

\* substitute_synonyms that looks for the first word of the group instead of
\* the word that was found in processedSynonyms
substitute_synonyms_FirstWord(lines, synonym_to_be_substituted, synonyms_to_group, index_of_synonyms_to_group) ==
    LET H == { j \in 0..(Len(lines) - 1) : synonyms_to_group[1] \in Range(lines[j + 1]) }
        t == CHOOSE j \in H : \A m \in H : j <= m
        appended == [lines EXCEPT ![t + 1] = @ \o synonyms_to_group]
    IN  [appended EXCEPT ![index_of_synonyms_to_group + 1] = <<>>]

\* substitute_synonyms: the lines after the call
substitute_synonyms(lines, synonym_to_be_substituted, synonyms_to_group, index_of_synonyms_to_group) ==
    LET t == TargetOf(lines, synonym_to_be_substituted)
        appended == [lines EXCEPT ![t + 1] = @ \o synonyms_to_group]
    IN  [appended EXCEPT ![index_of_synonyms_to_group + 1] = <<>>]

\* ---------------------------------------------------------------- state
VARIABLES
    ext,                \* the extension of filename
    file,               \* the content of the file in SYNONYMS_DIR
    original,           \* the content of the file when the call began
    separator,
    synonymsByLine,
    changes,
    processedSynonyms,
    i,                  \* the index the for loop yields next
    pc,                 \* "call", "while", "for", "write", "done", "failed"
    raised,             \* the exception that ended the call, "none" otherwise
    pass,               \* the passes begun in this call and what the current one did
    call,               \* the latest call of substitute_synonyms
    run,                \* the calls of group_synonyms begun so far
    first               \* how the first call ended

vars == << ext, file, original, separator, synonymsByLine, changes,
           processedSynonyms, i, pc, raised, pass, call, run, first >>

NoPass == [n |-> 0, discard |-> FALSE, dedup |-> FALSE, merge |-> FALSE]
NoCall == [word |-> <<>>, index |-> -1, target |-> -1, holders |-> {}]
NoOutcome == [raised |-> "none", partition |-> {}]

\* the input lines: up to MaxWords fields joined by the separator of the
\* extension (a comma when the extension has none)
InputSeparator(e) == IF SeparatorFor(e) = "" THEN "," ELSE SeparatorFor(e)

RawLines(e) ==
    { Join(t, InputSeparator(e)) \o << "\n" >> :
        t \in UNION { [1..n -> Tokens] : n \in 0..MaxWords } }

Files(e) == UNION { [1..n -> RawLines(e)] : n \in 0..MaxLines }

Init ==
    /\ ext \in Extensions
    /\ file \in Files(ext)
    /\ original = file
    /\ separator = ""
    /\ synonymsByLine = <<>>
    /\ changes = FALSE
    /\ processedSynonyms = {}
    /\ i = 0
    /\ pc = "call"
    /\ raised = "none"
    /\ pass = NoPass
    /\ call = NoCall
    /\ run = 1
    /\ first = NoOutcome

\* lines 31-42 when the extension is .csv or .tsv
ReadAndSplit ==
    /\ pc = "call"
    /\ SeparatorFor(ext) # ""
    /\ separator' = SeparatorFor(ext)
    /\ synonymsByLine' = Parse(file, SeparatorFor(ext))
    /\ changes' = TRUE
    /\ pc' = "while"
    /\ UNCHANGED << ext, file, original, processedSynonyms, i, raised, pass, call, run, first >>

\* lines 31-39 when it is not: the file is read and the exception is raised
RejectExtension ==
    /\ pc = "call"
    /\ SeparatorFor(ext) = ""
    /\ raised' = "UnsupportedFormat"
    /\ pc' = "failed"
    /\ UNCHANGED << ext, file, original, separator, synonymsByLine, changes,
                    processedSynonyms, i, pass, call, run, first >>

\* "while changes" is true: lines 55-57, a new pass begins
StartPass ==
    /\ pc = "while"
    /\ changes
    /\ pass.n < MaxPasses
    /\ changes' = FALSE
    /\ processedSynonyms' = {}
    /\ i' = 0
    /\ pass' = [n |-> pass.n + 1, discard |-> FALSE, dedup |-> FALSE, merge |-> FALSE]
    /\ pc' = "for"
    /\ UNCHANGED << ext, file, original, separator, synonymsByLine, raised, call, run, first >>

\* "while changes" is false
ExitLoop ==
    /\ pc = "while"
    /\ ~changes
    /\ pc' = "write"
    /\ UNCHANGED << ext, file, original, separator, synonymsByLine, changes,
                    processedSynonyms, i, raised, pass, call, run, first >>

\* the list iterator is exhausted: the pass is over
EndPass ==
    /\ pc = "for"
    /\ i >= Len(synonymsByLine)
    /\ pc' = "while"
    /\ UNCHANGED << ext, file, original, separator, synonymsByLine, changes,
                    processedSynonyms, i, raised, pass, call, run, first >>

\* Discard that does not set changes
Discard_NoChange ==
    /\ pc = "for"
    /\ i < Len(synonymsByLine)
    /\ Len(synonymsByLine[i + 1]) < 2
    /\ synonymsByLine' = SubSeq(synonymsByLine, 1, i) \o SubSeq(synonymsByLine, i + 2, Len(synonymsByLine))
    /\ i' = i + 1
    /\ pass' = [pass EXCEPT !.discard = TRUE]
    /\ UNCHANGED << ext, file, original, separator, changes, processedSynonyms, pc, raised,
                    call, run, first >>

\* lines 58-61: the line is popped while the list is iterated; the iterator
\* moves on to index i + 1 of the shortened list
Discard ==
    /\ pc = "for"
    /\ i < Len(synonymsByLine)
    /\ IsDegenerate(synonymsByLine[i + 1])
    /\ changes' = TRUE
    /\ synonymsByLine' = Pop(synonymsByLine, i)
    /\ i' = i + 1
    /\ pass' = [pass EXCEPT !.discard = TRUE]
    /\ UNCHANGED << ext, file, original, separator, processedSynonyms, pc, raised,
                    call, run, first >>

\* KeepLine that does not add the words of the line to processedSynonyms
KeepLine_NoAdd ==
    /\ pc = "for"
    /\ i < Len(synonymsByLine)
    /\ Len(synonymsByLine[i + 1]) >= 2
    /\ \E line \in { o \in [1..Cardinality(Range(synonymsByLine[i + 1])) -> Range(synonymsByLine[i + 1])] :
                        Range(o) = Range(synonymsByLine[i + 1]) } :
        /\ changes' = (changes \/ Len(line) # Len(synonymsByLine[i + 1]))
        /\ pass' = [pass EXCEPT !.dedup = @ \/ Len(line) # Len(synonymsByLine[i + 1])]
        /\ synonymsByLine' = [synonymsByLine EXCEPT ![i + 1] = line]
    /\ i' = i + 1
    /\ UNCHANGED << ext, file, original, separator, processedSynonyms, pc, raised, call, run, first >>

\* lines 62-73 when no word of the line is in processedSynonyms
KeepLine ==
    /\ pc = "for"
    /\ i < Len(synonymsByLine)
    /\ ~IsDegenerate(synonymsByLine[i + 1])
    /\ \E line \in Dedup(synonymsByLine[i + 1]) :
        /\ FirstProcessed(line, processedSynonyms) = 0
        /\ changes' = (changes \/ Len(line) # Len(synonymsByLine[i + 1]))
        /\ pass' = [pass EXCEPT !.dedup = @ \/ Len(line) # Len(synonymsByLine[i + 1])]
        /\ synonymsByLine' = [synonymsByLine EXCEPT ![i + 1] = line]
        /\ processedSynonyms' = processedSynonyms \cup Range(line)
    /\ i' = i + 1
    /\ UNCHANGED << ext, file, original, separator, pc, raised, call, run, first >>

\* lines 62-72 when a word of the line is in processedSynonyms
MergeLine ==
    /\ pc = "for"
    /\ i < Len(synonymsByLine)
    /\ ~IsDegenerate(synonymsByLine[i + 1])
    /\ \E line \in Dedup(synonymsByLine[i + 1]) :
        LET k == FirstProcessed(line, processedSynonyms)
            lines == [synonymsByLine EXCEPT ![i + 1] = line]
        IN  /\ k # 0
            /\ call' = [word |-> line[k], index |-> i,
                        target |-> TargetOf(lines, line[k]),
                        holders |-> Holders(lines, line[k])]
            /\ pass' = [pass EXCEPT !.dedup = @ \/ Len(line) # Len(synonymsByLine[i + 1]),
                                    !.merge = TargetOf(lines, line[k]) # -1]
            /\ IF TargetOf(lines, line[k]) # -1
               THEN /\ synonymsByLine' = substitute_synonyms(lines, line[k], line, i)
                    /\ changes' = TRUE
                    /\ processedSynonyms' =
                           processedSynonyms \cup { line[m] : m \in 1..(k - 1) } \cup Range(line)
                    /\ i' = i + 1
                    /\ UNCHANGED << pc, raised >>
               ELSE /\ synonymsByLine' = lines
                    /\ changes' = (changes \/ Len(line) # Len(synonymsByLine[i + 1]))
                    /\ processedSynonyms' =
                           processedSynonyms \cup { line[m] : m \in 1..(k - 1) }
                    /\ raised' = "NotFound"
                    /\ pc' = "failed"
                    /\ UNCHANGED i
    /\ UNCHANGED << ext, file, original, separator, run, first >>

\* lines 76-78
WriteFile ==
    /\ pc = "write"
    /\ file' = Format(synonymsByLine, separator)
    /\ pc' = "done"
    /\ UNCHANGED << ext, original, separator, synonymsByLine, changes,
                    processedSynonyms, i, raised, pass, call, run, first >>

Next ==
    \/ ReadAndSplit
    \/ RejectExtension
    \/ StartPass
    \/ ExitLoop
    \/ EndPass
    \/ Discard
    \/ KeepLine
    \/ MergeLine
    \/ WriteFile

\* the word sets of the lines of synonymsByLine
OutputSets == { Range(synonymsByLine[k]) : k \in 1..Len(synonymsByLine) }

\* how the call ended
Outcome == [raised |-> raised, partition |-> OutputSets]

\* the script is run again on the file it has written
RunAgain ==
    /\ pc = "done"
    /\ run < MaxRuns
    /\ run' = run + 1
    /\ original' = file
    /\ first' = IF run = 1 THEN Outcome ELSE first
    /\ separator' = ""
    /\ synonymsByLine' = <<>>
    /\ changes' = FALSE
    /\ processedSynonyms' = {}
    /\ i' = 0
    /\ pc' = "call"
    /\ raised' = "none"
    /\ pass' = NoPass
    /\ call' = NoCall
    /\ UNCHANGED << ext, file >>

\* the script is run again on a file with the content the first run was given
SameInputAgain ==
    /\ pc \in { "done", "failed" }
    /\ run < MaxRuns
    /\ run' = run + 1
    /\ file' = original
    /\ first' = IF run = 1 THEN Outcome ELSE first
    /\ separator' = ""
    /\ synonymsByLine' = <<>>
    /\ changes' = FALSE
    /\ processedSynonyms' = {}
    /\ i' = 0
    /\ pc' = "call"
    /\ raised' = "none"
    /\ pass' = NoPass
    /\ call' = NoCall
    /\ UNCHANGED << ext, original >>

Spec == Init /\ [][Next]_vars

\* The loop is synchronous code of one thread: a step that can be taken is
\* taken.  The behaviours followed are those of comma-separated files and of
\* files with no accepted extension: every file of fewer than MaxLines lines,
\* and the files of MaxLines lines whose fields are the words a and b.
InitFair ==
    /\ Init
    /\ ext # "tsv"
    /\ Len(file) = MaxLines =>
           \A k \in 1..Len(file) : Range(file[k]) \subseteq { "a", "b", ",", "\n" }
FairSpec == InitFair /\ [][Next]_vars /\ WF_vars(Next)

\* two runs in a row, the second on the output of the first; files of fewer
\* than MaxLines lines
InitTwice == Init /\ Len(file) < MaxLines
NextTwice == Next \/ RunAgain
SpecTwice == InitTwice /\ [][NextTwice]_vars

\* two runs on the same input; the two separators behave alike, one is followed
InitSame == Init /\ ext # "tsv"
NextSame == Next \/ SameInputAgain
SpecSame == InitSame /\ [][NextSame]_vars

\* ---------------------------------------------------------------- claims
\* the lines of the file as group_synonyms split them when the call began
InputLines == Parse(original, SeparatorFor(ext))

\* the while loop has ended: synonymsByLine is what is written out
Finished == pc \in { "write", "done" }

\* the words that a chain of lines, each sharing a word with the one before,
\* connects to a word of W
RECURSIVE Closure(_, _)
Closure(lines, W) ==
    LET W2 == W \cup UNION { Range(lines[k]) :
                    k \in { m \in 1..Len(lines) : Range(lines[m]) \cap W # {} } }
    IN  IF W2 = W THEN W ELSE Closure(lines, W2)

AllWords == UNION { Range(InputLines[k]) : k \in 1..Len(InputLines) } \cup UNION OutputSets

SameOutputLine(a, b) == \E S \in OutputSets : a \in S /\ b \in S

\* C1: when the call ends normally, two distinct words are in the same output
\* line exactly when a chain of input lines, consecutive ones sharing a word,
\* leads from one to the other.
ConnectedComponents ==
    Finished =>
        LET input == InputLines
            words == UNION { Range(input[k]) : k \in 1..Len(input) } \cup UNION OutputSets
        IN  \A a \in words :
                LET chained == Closure(input, {a})
                IN  \A b \in words \ {a} : SameOutputLine(a, b) <=> b \in chained

\* two words that no input line holds together end in one output line
ConnectedComponentsWitness ==
    /\ Finished
    /\ \E a, b \in AllWords :
        /\ a # b
        /\ SameOutputLine(a, b)
        /\ \A k \in 1..Len(InputLines) : ~({a, b} \subseteq Range(InputLines[k]))

\* C2: when the loop has ended, any two different lines of synonymsByLine have
\* no word in common.
OutputDisjoint ==
    Finished => \A j, k \in 1..Len(synonymsByLine) :
                    j # k => Range(synonymsByLine[j]) \cap Range(synonymsByLine[k]) = {}

\* two lines are written after a pass that merged overlapping lines
OutputDisjointWitness ==
    /\ Finished
    /\ Len(synonymsByLine) >= 2
    /\ call.index >= 0

\* C3: when the loop has ended, every line of synonymsByLine has at least two
\* words and no word twice.
OutputLinesProper ==
    Finished => \A k \in 1..Len(synonymsByLine) :
                    /\ Len(synonymsByLine[k]) >= 2
                    /\ Cardinality(Range(synonymsByLine[k])) = Len(synonymsByLine[k])

\* a line followed a discarded line in the input, a line was emptied by a
\* merge, and something is written
OutputLinesProperWitness ==
    /\ Finished
    /\ Len(synonymsByLine) >= 1
    /\ call.index >= 0
    /\ \E k \in 1..(Len(InputLines) - 1) : IsDegenerate(InputLines[k])

\* the words of the input lines that have two or more distinct words
KeptWords ==
    UNION { Range(InputLines[k]) :
              k \in { m \in 1..Len(InputLines) : Cardinality(Range(InputLines[m])) >= 2 } }

\* C4: when the call ends, the words of the output lines are exactly the words
\* of the input lines that have two or more distinct words.
WordsPreserved == Finished => UNION OutputSets = KeptWords

\* a word of the input is lost, and lines were merged
WordsPreservedWitness ==
    /\ Finished
    /\ call.index >= 0
    /\ \E w \in AllWords : w \notin UNION OutputSets

\* the words of every line of a written file, as Format wrote them
WrittenSets(f, sep) ==
    [k \in 1..Len(f) |-> Range(Split(SubSeq(f[k], 1, Len(f[k]) - 1), sep))]

\* C5: a second run on the file the first run wrote ends after one pass that
\* discards nothing, removes no duplicate and merges nothing, and writes the
\* same lines.
Idempotent ==
    (run = 2 /\ pc = "done") =>
        /\ WrittenSets(file, separator) = WrittenSets(original, separator)
        /\ pass = [n |-> 1, discard |-> FALSE, dedup |-> FALSE, merge |-> FALSE]

\* C6: with an extension other than .csv and .tsv the call fails with the
\* unsupported-format error, no line is split, no pass is made and the file
\* keeps its content.
UnsupportedRejected ==
    ext \notin { "csv", "tsv" } =>
        /\ pc \in { "call", "failed" }
        /\ pc = "failed" => raised = "UnsupportedFormat"
        /\ synonymsByLine = <<>>
        /\ pass = NoPass
        /\ call = NoCall
        /\ file = original

\* the call has failed on a file that has lines
UnsupportedRejectedWitness ==
    /\ ext \notin { "csv", "tsv" }
    /\ pc = "failed"
    /\ Len(file) >= 2

\* C7: a second run on the same input ends as the first did, with the same
\* exception or none and the same set of output word sets, whatever orders
\* list(set(line)) produced in either run.
Deterministic ==
    (run >= 2 /\ pc \in { "done", "failed" }) => Outcome = first

\* the second run has ended; it made a call of substitute_synonyms for a word
\* that two lines other than the current one held, so that the order of the
\* words decided the target
DeterministicWitness ==
    /\ run = 2
    /\ pc = "done"
    /\ Len(synonymsByLine) >= 1
    /\ Cardinality(call.holders \ { call.index }) >= 2

\* the pass that has just ended changed nothing
QuietPass == ~pass.discard /\ ~pass.dedup /\ ~pass.merge

\* C8: once the file is split the while loop ends, after a pass with no
\* discard, no removed duplicate and no merge.
LoopTerminates ==
    (pc = "while" /\ pass.n = 0) ~> (pc = "write" /\ pass.n >= 1 /\ QuietPass)

\* the loop has ended after passes that popped lines during the iteration
\* and merged lines
LoopTerminatesWitness ==
    /\ pc = "write"
    /\ pass.n >= 4
    /\ call.index >= 0
    /\ Len(synonymsByLine) < Len(InputLines)

\* C9: every call of substitute_synonyms finds its target at an index below
\* the index of the current line, and the "not found" exception is not raised.
TargetBeforeCurrent ==
    /\ raised # "NotFound"
    /\ call.index >= 0 => (call.target >= 0 /\ call.target < call.index)

\* a call made in a pass that had popped a line before it
TargetBeforeCurrentWitness ==
    /\ call.index >= 1
    /\ pass.discard
    /\ pass.merge
    /\ pc = "for"

\* the lines other than the current one that held the word of the latest call
OtherHolders == call.holders \ { call.index }

\* C10 as stated: at every call of substitute_synonyms exactly one line other
\* than the current one contains the word.
ExactlyOneOtherHolder == call.index >= 0 => Cardinality(OtherHolders) = 1

\* C10 amended: at every call of substitute_synonyms at least one line other
\* than the current one contains the word, and the target is the first of them.
FirstOtherHolderIsTarget ==
    call.index >= 0 =>
        /\ OtherHolders # {}
        /\ call.target \in OtherHolders
        /\ \A j \in OtherHolders : call.target <= j

\* a call whose word two lines other than the current one contained
FirstOtherHolderIsTargetWitness ==
    /\ call.index >= 0
    /\ Cardinality(OtherHolders) >= 2

====
